---- MODULE Spec2Model ----
(***************************************************************************)
(* Model of the deck recommendation engine of DataStructure.py (class      *)
(* Deck) and of the build sequence of ProjectCode.py (main).               *)
(*                                                                         *)
(* Strings that the code splits are kept split: a type line is a sequence  *)
(* of segments (the parts between " — "), a segment is a sequence of       *)
(* words (the parts between " "), and str(cmc) is the sequence of its      *)
(* digit runs.  An optional value (text) is a sequence of length 0 (None)  *)
(* or 1.  A dict is its key sequence (insertion order)  *)
(* and its mapping, a networkx graph is its node sequence (insertion       *)
(* order) and its set of edges.                                            *)
(***************************************************************************)
EXTENDS Integers, Sequences, FiniteSets, TLC

VARIABLES
    card_dict,        \* Deck.card_dict: lowercase name -> card
    G,                \* the similarity graph handed to build_deck
    commander_id,     \* build_deck argument
    commander_colors, \* build_deck argument (a list)
    pc,               \* position of build_deck
    bound,            \* names of build_deck's locals that are assigned
    deck,             \* build_deck local
    selected_lands,   \* build_deck local
    land_i,           \* index of the land loop (line 470)
    deck_counts,      \* build_deck local
    sorted_nodes,     \* build_deck local
    node_i,           \* index of the selection loop (line 502)
    card_types,       \* build_deck local
    type_i,           \* index of the inner loop (line 508)
    result,           \* the value build_deck returned
    error,            \* the exception that ended the run, "" when none
    tribal_type,      \* main: the tribal type typed in
    valid_cards,      \* main: what data_preparation returned
    similarities      \* main: what similarity_calculation returned

buildVars == <<G, commander_id, commander_colors, pc, bound, deck, selected_lands,
               land_i, deck_counts, sorted_nodes, node_i, card_types, type_i, result>>

buildVars_but_pc == <<G, commander_id, commander_colors, bound, deck, selected_lands,
                      land_i, deck_counts, sorted_nodes, node_i, card_types, type_i,
                      result>>

mainVars == <<tribal_type, valid_cards, similarities>>

vars == <<card_dict, buildVars, error, mainVars>>

(***************************************************************************)
(* Bounds of the checked inputs.                                           *)
(***************************************************************************)
MaxShort == 1    \* creatures and artifacts: up to this many cards fewer than the quota
MaxHybrid == 1   \* cards whose type list holds two tracked types
MaxHub == 2      \* edges from the last node to the first nodes

(***************************************************************************)
(* Program constants of build_deck.                                        *)
(***************************************************************************)
deck_size == 100
num_lands == 37
num_creatures == 31
num_artifacts == 6
num_enchantments == 6
num_instants == 10
num_sorceries == 10

Range(s) == {s[i] : i \in 1..Len(s)}

RECURSIVE SumOver(_, _)
SumOver(f, S) == IF S = {} THEN 0
                 ELSE LET x == CHOOSE y \in S : TRUE IN f[x] + SumOver(f, S \ {x})

RECURSIVE Repeat(_, _)
Repeat(x, n) == IF n <= 0 THEN <<>> ELSE <<x>> \o Repeat(x, n - 1)

RECURSIVE Flatten(_)
Flatten(ss) == IF ss = <<>> THEN <<>> ELSE Head(ss) \o Flatten(Tail(ss))

(***************************************************************************)
(* str.lower on the strings of the model: card names "CardN" and the       *)
(* capitalised words of type lines and land names.                         *)
(***************************************************************************)
MaxNames == num_creatures + num_artifacts + num_enchantments + num_instants
            + num_sorceries + MaxHybrid + 2
MixedName == [i \in 1..MaxNames |-> "Card" \o ToString(i)]
LowerName == [i \in 1..MaxNames |-> "card" \o ToString(i)]
LowerWord ==
    "Creature" :> "creature" @@ "Artifact" :> "artifact" @@
    "Enchantment" :> "enchantment" @@ "Instant" :> "instant" @@
    "Sorcery" :> "sorcery" @@ "Legendary" :> "legendary" @@ "Land" :> "land" @@
    "Basic" :> "basic" @@ "Elf" :> "elf" @@ "Goblin" :> "goblin" @@
    "Aura" :> "aura" @@ "ELF" :> "elf" @@ "Golem" :> "golem" @@
    "Plains" :> "plains" @@ "Island" :> "island" @@ "Swamp" :> "swamp" @@
    "Mountain" :> "mountain" @@ "Forest" :> "forest"

LowerTable ==
    [s \in {MixedName[i] : i \in 1..MaxNames} |->
        LowerName[CHOOSE i \in 1..MaxNames : MixedName[i] = s]] @@ LowerWord

Lower(s) == IF s \in DOMAIN LowerTable THEN LowerTable[s] ELSE s

\* " ".join(words) of a non-empty word list
RECURSIVE JoinSpace(_)
JoinSpace(ws) == IF Len(ws) = 1 THEN ws[1] ELSE ws[1] \o " " \o JoinSpace(Tail(ws))

LowerAll(ws) == [i \in 1..Len(ws) |-> Lower(ws[i])]

(***************************************************************************)
(* The exceptions a run can end with.                                      *)
(***************************************************************************)
UnpackError == "ValueError: too many values to unpack"
NoneTypeError == "TypeError: 'NoneType' object is not iterable"
EmptyVocabularyError == "ValueError: empty vocabulary"

(***************************************************************************)
(* dict.get: the info of the entry with that key, as an option.            *)
(***************************************************************************)
DictGet(d, key) == IF key \in DOMAIN d.at THEN <<d.at[key]>> ELSE <<>>

\* d.items() in iteration order
DictItems(d) == [i \in 1..Len(d.keys) |-> [key |-> d.keys[i], info |-> d.at[d.keys[i]]]]

(***************************************************************************)
(* Deck.get_card_type.  kind "None": the card is no key; kind              *)
(* "ValueError": the type line has more than one " — ", so the unpacking   *)
(* of split's result raises; kind "list": the returned list.               *)
(***************************************************************************)
get_card_type(d, card_name) ==
    LET card_features == DictGet(d, card_name) IN
    IF card_features = <<>> THEN [kind |-> "None", types |-> <<>>]
    ELSE LET card_type == card_features[1].type IN
         IF Len(card_type) >= 2
         THEN IF Len(card_type) > 2
              THEN [kind |-> "ValueError", types |-> <<>>]
              ELSE [kind |-> "list",
                    types |-> <<JoinSpace(LowerAll(card_type[1]))>>
                              \o LowerAll(card_type[2])]
         ELSE [kind |-> "list", types |-> <<JoinSpace(LowerAll(card_type[1]))>>]

get_card_color(d, card_name) ==
    LET card_features == DictGet(d, card_name) IN
    IF card_features = <<>> THEN <<>> ELSE <<card_features[1].colors>>

(***************************************************************************)
(* networkx.Graph as used by the code.                                     *)
(***************************************************************************)
EmptyGraph == [nodes |-> <<>>, edges |-> {}]

AddNode(g, n) == IF n \in Range(g.nodes) THEN g
                 ELSE [g EXCEPT !.nodes = Append(@, n)]

\* the degree of a node; the code adds no self-loop (i != j, line 325, and
\* the names of a table's cards differ)
Degree(g, n) == Cardinality({e \in g.edges : n \in e})

\* G.degree(): (node, degree) pairs in node insertion order
DegreeView(g) == [i \in 1..Len(g.nodes) |-> <<g.nodes[i], Degree(g, g.nodes[i])>>]

(***************************************************************************)
(* sorted(pairs, key=degree, reverse=True): a stable sort, so pairs of     *)
(* equal degree keep their order.                                          *)
(***************************************************************************)
RECURSIVE SortedFrom(_, _)
SortedFrom(pairs, d) ==
    IF d < 0 THEN <<>>
    ELSE SelectSeq(pairs, LAMBDA p : p[2] = d) \o SortedFrom(pairs, d - 1)

\* variant: sorts ascending and reverses, which also reverses equal degrees
RECURSIVE Reverse(_)
Reverse(q) == IF q = <<>> THEN <<>> ELSE Append(Reverse(Tail(q)), Head(q))

SortedByDegreeDesc_TiesReversed(pairs) == SortedFrom(Reverse(pairs), Len(pairs))

SortedByDegreeDesc(pairs) == SortedFrom(pairs, Len(pairs))

(***************************************************************************)
(* build_deck: the tables of lines 447-453 and 481-496.                    *)
(***************************************************************************)
basic_lands == <<
    [land |-> "Plains", color |-> "W"],
    [land |-> "Island", color |-> "U"],
    [land |-> "Swamp", color |-> "B"],
    [land |-> "Mountain", color |-> "R"],
    [land |-> "Forest", color |-> "G"] >>

SelectedLands(colors) ==
    LET kept == SelectSeq(basic_lands, LAMBDA e : e.color \in Range(colors))
    IN [i \in 1..Len(kept) |-> kept[i].land]

TrackedTypes == {"creature", "artifact", "enchantment", "instant", "sorcery"}

InitialDeckCounts == [t \in TrackedTypes |-> 0]

card_type_limits ==
    "creature" :> num_creatures @@ "artifact" :> num_artifacts @@
    "enchantment" :> num_enchantments @@ "instant" :> num_instants @@
    "sorcery" :> num_sorceries

\* variant: the deck starts empty
BuildDeckSelectLands_NoCommander ==
    /\ pc = "call"
    /\ deck' = <<>>
    /\ selected_lands' = SelectedLands(commander_colors)
    /\ IF selected_lands' = <<>>
       THEN /\ pc' = "returned"
            /\ result' = <<>>
       ELSE /\ pc' = "lands"
            /\ result' = result
    /\ land_i' = 1
    /\ bound' = bound \cup {"deck", "selected_lands"}
    /\ UNCHANGED <<card_dict, G, commander_id, commander_colors, deck_counts,
                   sorted_nodes, node_i, card_types, type_i, error, mainVars>>

\* variant: no early return when no land was selected
BuildDeckSelectLands_NoEarlyReturn ==
    /\ pc = "call"
    /\ deck' = <<commander_id>>
    /\ selected_lands' = SelectedLands(commander_colors)
    /\ pc' = "lands"
    /\ result' = result
    /\ land_i' = 1
    /\ bound' = bound \cup {"deck", "selected_lands"}
    /\ UNCHANGED <<card_dict, G, commander_id, commander_colors, deck_counts,
                   sorted_nodes, node_i, card_types, type_i, error, mainVars>>

(***************************************************************************)
(* build_deck, lines 443-463: the deck starts with the commander; when no  *)
(* basic land matches the commander's colors the empty list is returned.   *)
(***************************************************************************)
BuildDeckSelectLands ==
    /\ pc = "call"
    /\ deck' = <<commander_id>>
    /\ selected_lands' = SelectedLands(commander_colors)
    /\ IF selected_lands' = <<>>
       THEN /\ pc' = "returned"
            /\ result' = <<>>
       ELSE /\ pc' = "lands"
            /\ result' = result
    /\ land_i' = 1
    /\ bound' = bound \cup {"deck", "selected_lands"}
    /\ UNCHANGED <<card_dict, G, commander_id, commander_colors, deck_counts,
                   sorted_nodes, node_i, card_types, type_i, error, mainVars>>

\* variant: the division of line 467 rounds up
BuildDeckAddLand_RoundsUp ==
    /\ pc = "lands"
    /\ land_i <= Len(selected_lands)
    /\ deck' = deck \o Repeat(selected_lands[land_i],
                              (num_lands + Len(selected_lands) - 1) \div Len(selected_lands))
    /\ land_i' = land_i + 1
    /\ UNCHANGED <<card_dict, G, commander_id, commander_colors, pc, bound,
                   selected_lands, deck_counts, sorted_nodes, node_i, card_types,
                   type_i, result, error, mainVars>>

\* lines 466-471: one iteration of the land loop
BuildDeckAddLand ==
    /\ pc = "lands"
    /\ land_i <= Len(selected_lands)
    /\ deck' = deck \o Repeat(selected_lands[land_i], num_lands \div Len(selected_lands))
    /\ land_i' = land_i + 1
    /\ UNCHANGED <<card_dict, G, commander_id, commander_colors, pc, bound,
                   selected_lands, deck_counts, sorted_nodes, node_i, card_types,
                   type_i, result, error, mainVars>>

\* lines 474-499: the counters and the ranking of the graph's nodes
BuildDeckSortNodes ==
    /\ pc = "lands"
    /\ land_i > Len(selected_lands)
    /\ deck_counts' = InitialDeckCounts
    /\ sorted_nodes' = SortedByDegreeDesc(DegreeView(G))
    /\ node_i' = 1
    /\ pc' = "loop"
    /\ bound' = bound \cup {"deck_counts", "sorted_nodes"}
    /\ UNCHANGED <<card_dict, G, commander_id, commander_colors, deck,
                   selected_lands, land_i, card_types, type_i, result, error, mainVars>>

\* line 502 exhausted, or the break of lines 503-504; then line 517
BuildDeckReturn ==
    /\ pc = "loop"
    /\ \/ node_i > Len(sorted_nodes)
       \/ Len(deck) >= deck_size
    /\ pc' = "returned"
    /\ result' = deck
    /\ UNCHANGED <<card_dict, G, commander_id, commander_colors, bound, deck,
                   selected_lands, land_i, deck_counts, sorted_nodes, node_i,
                   card_types, type_i, error, mainVars>>

\* line 506: the types of the next ranked card.  get_card_type raises on a
\* type line with two " — "; when it returns None, line 508 raises
BuildDeckLookup ==
    /\ pc = "loop"
    /\ node_i <= Len(sorted_nodes)
    /\ Len(deck) < deck_size
    /\ LET r == get_card_type(card_dict, Lower(sorted_nodes[node_i][1])) IN
       CASE r.kind = "ValueError" ->
               /\ pc' = "raised"
               /\ error' = UnpackError
               /\ UNCHANGED <<card_types, type_i, bound>>
         [] r.kind = "None" ->
               /\ pc' = "raised"
               /\ error' = NoneTypeError
               /\ card_types' = <<>>
               /\ type_i' = type_i
               /\ bound' = bound \cup {"card_types"}
         [] OTHER ->
               /\ pc' = "types"
               /\ error' = error
               /\ card_types' = r.types
               /\ type_i' = 1
               /\ bound' = bound \cup {"card_types"}
    /\ UNCHANGED <<card_dict, G, commander_id, commander_colors, deck,
                   selected_lands, land_i, deck_counts, sorted_nodes, node_i, result,
                   mainVars>>

\* variant: the quota test of line 511 with <= for <
TypeAccepted_OffByOne(counts, card_type) ==
    /\ card_type \in DOMAIN counts
    /\ counts[card_type] <= card_type_limits[card_type]

\* lines 508-514: one iteration of the inner loop over the card's types
TypeAccepted(counts, card_type) ==
    /\ card_type \in DOMAIN counts
    /\ counts[card_type] < card_type_limits[card_type]

BuildDeckType ==
    /\ pc = "types"
    /\ LET card_id == sorted_nodes[node_i][1]
           card_type == card_types[type_i]
       IN IF TypeAccepted(deck_counts, card_type)
          THEN /\ deck' = Append(deck, card_id)
               /\ deck_counts' = [deck_counts EXCEPT ![card_type] = @ + 1]
          ELSE UNCHANGED <<deck, deck_counts>>
    /\ IF type_i < Len(card_types)
       THEN /\ type_i' = type_i + 1
            /\ UNCHANGED <<pc, node_i>>
       ELSE /\ type_i' = type_i
            /\ node_i' = node_i + 1
            /\ pc' = "loop"
    /\ UNCHANGED <<card_dict, G, commander_id, commander_colors, bound,
                   selected_lands, land_i, sorted_nodes, card_types, result, error,
                   mainVars>>

BuildDeck ==
    \/ BuildDeckSelectLands
    \/ BuildDeckAddLand
    \/ BuildDeckSortNodes
    \/ BuildDeckReturn
    \/ BuildDeckLookup
    \/ BuildDeckType

(***************************************************************************)
(* Card tables and graphs the checks run on.  Card i is named "CardI" and  *)
(* filed under the key "cardI", as Deck.__init__ (lines 195-197) does.     *)
(***************************************************************************)
TL_Creature == << <<"Creature">>, <<"Elf">> >>
TL_Artifact == << <<"Artifact">> >>
TL_Enchantment == << <<"Enchantment">>, <<"Aura">> >>
TL_Instant == << <<"Instant">> >>
TL_Sorcery == << <<"Sorcery">> >>
TL_Legendary == << <<"Legendary", "Creature">>, <<"Goblin">> >>
TL_Hybrid == << <<"Creature">>, <<"Artifact">> >>
TL_Split == << <<"Creature">>, <<"Elf">>, <<"Goblin">> >>
TL_ArtifactCreature == << <<"Artifact", "Creature">>, <<"Golem">> >>

\* what follows the cards of one tracked type: a legendary creature, a card
\* with a malformed type line, one more creature, an artifact creature, or a
\* graph node that is no card of the table
TailKinds == {"legendary", "split", "creature", "artifact_creature", "orphan"}
TailTypes(tail) ==
    CASE tail = "legendary" -> <<TL_Legendary>>
      [] tail = "split" -> <<TL_Split>>
      [] tail = "artifact_creature" -> <<TL_ArtifactCreature>>
      [] tail = "creature" -> <<TL_Creature>>
      [] OTHER -> <<>>

MakeCard(i, type, colors, text) ==
    [name |-> MixedName[i], colors |-> colors, type |-> type, text |-> text,
     cmc |-> <<"2", "0">>]

\* Deck.__init__, lines 195-197: cards filed under their lowercase names
LoadCards(cards) ==
    LET keyOf == [i \in 1..Len(cards) |-> Lower(cards[i].name)]
        first == {i \in 1..Len(cards) : \A j \in 1..(i - 1) : keyOf[j] # keyOf[i]}
        RECURSIVE InOrder(_)
        InOrder(i) == IF i > Len(cards) THEN <<>>
                      ELSE (IF i \in first THEN <<keyOf[i]>> ELSE <<>>) \o InOrder(i + 1)
    IN [keys |-> InOrder(1),
        at |-> [k \in Range(keyOf) |->
                   cards[CHOOSE i \in 1..Len(cards) :
                            keyOf[i] = k /\ \A j \in (i + 1)..Len(cards) : keyOf[j] # k]]]

TableOfTypes(types) ==
    LoadCards([i \in 1..Len(types) |-> MakeCard(i, types[i], <<"W">>, <<>>)])

BuildTypes(nCre, nArt, nHyb, tail) ==
    Repeat(TL_Creature, nCre) \o Repeat(TL_Artifact, nArt)
    \o Repeat(TL_Enchantment, num_enchantments) \o Repeat(TL_Instant, num_instants)
    \o Repeat(TL_Sorcery, num_sorceries) \o TailTypes(tail)
    \o Repeat(TL_Hybrid, nHyb)

\* the table's names as nodes, nOrph nodes that are no card, and hub edges
\* from the last node to the first ones
BuildGraph(table, nOrph, hub) ==
    LET n == Len(table.keys) + nOrph
        nodes == [i \in 1..n |-> MixedName[i]]
    IN [nodes |-> nodes, edges |-> {{nodes[n], nodes[j]} : j \in 1..hub}]

ColorOrder == <<"G", "W", "R", "U", "B">>
ColorLists == {SubSeq(ColorOrder, 1, k) : k \in 0..5} \cup {<<"Colorless">>}

CommanderIds == {"card1", "commander"}

InitLocals ==
    /\ bound = {}
    /\ deck = <<>>
    /\ selected_lands = <<>>
    /\ land_i = 0
    /\ deck_counts = InitialDeckCounts
    /\ sorted_nodes = <<>>
    /\ node_i = 0
    /\ card_types = <<>>
    /\ type_i = 0
    /\ result = <<>>
    /\ error = ""

Init ==
    /\ \E short \in 0..MaxShort, nHyb \in 0..MaxHybrid, hub \in 0..MaxHub,
          tail \in TailKinds :
          /\ card_dict = TableOfTypes(BuildTypes(num_creatures - short,
                                                 num_artifacts - short, nHyb, tail))
          /\ G = BuildGraph(card_dict, IF tail = "orphan" THEN 1 ELSE 0, hub)
    /\ commander_id \in CommanderIds
    /\ commander_colors \in ColorLists
    /\ pc = "call"
    /\ InitLocals
    /\ tribal_type = ""
    /\ valid_cards = <<>>
    /\ similarities = <<>>

Next == BuildDeck

Spec == Init /\ [][Next]_vars

(***************************************************************************)
(* State functions the properties use.                                     *)
(***************************************************************************)
NumLandEntries ==
    IF selected_lands = <<>> THEN 0
    ELSE Len(selected_lands) * (num_lands \div Len(selected_lands))

\* the deck entries after the commander and the land blocks
Picked(d) == SubSeq(d, 2 + NumLandEntries, Len(d))

\* position of a node in the graph's insertion order (0: no node)
NodeIndex(g, n) ==
    IF n \in Range(g.nodes) THEN CHOOSE i \in 1..Len(g.nodes) : g.nodes[i] = n ELSE 0

\* the tracked types in the type list of a graph node
TrackedOf(n) ==
    LET r == get_card_type(card_dict, Lower(n)) IN
    {i \in 1..Len(r.types) : r.types[i] \in TrackedTypes}

NoLandMatches == \A i \in 1..Len(basic_lands) : basic_lands[i].color \notin Range(commander_colors)

LandNames == <<"Plains", "Island", "Swamp", "Mountain", "Forest">>
LandColor == "Plains" :> "W" @@ "Island" :> "U" @@ "Swamp" :> "B"
             @@ "Mountain" :> "R" @@ "Forest" :> "G"
MatchingLands == SelectSeq(LandNames, LAMBDA l : LandColor[l] \in Range(commander_colors))

AfterLands == pc \in {"loop", "types", "raised"} \/ (pc = "returned" /\ result # <<>>)

(***************************************************************************)
(* C1: the list build_deck returns has at most 100 entries, also when a    *)
(* card with two tracked types is processed at 99 entries.                 *)
(***************************************************************************)
C1_AtMostDeckSize == pc = "returned" => Len(result) <= deck_size

(***************************************************************************)
(* C2: with at least one matching land and enough nodes of every tracked   *)
(* type, each node with at most one tracked type, build_deck returns       *)
(* exactly 100 identifiers, for 1 to 5 commander colors.                   *)
(***************************************************************************)
NodesOfType(t) ==
    {i \in 1..Len(G.nodes) :
        LET r == get_card_type(card_dict, Lower(G.nodes[i])) IN
        /\ r.kind = "list"
        /\ {j \in 1..Len(r.types) : r.types[j] \in TrackedTypes} # {}
        /\ \A j \in 1..Len(r.types) : r.types[j] \in TrackedTypes => r.types[j] = t}

QuotasCanBeFilled ==
    /\ \A t \in TrackedTypes : Cardinality(NodesOfType(t)) >= card_type_limits[t]
    /\ \A i \in 1..Len(G.nodes) : Cardinality(TrackedOf(G.nodes[i])) <= 1

C2_ExactlyHundred ==
    (pc = "returned" /\ ~NoLandMatches /\ QuotasCanBeFilled) => Len(result) = 100

(***************************************************************************)
(* C3 as stated: whatever the colors, the returned list starts with the    *)
(* commander identifier.                                                   *)
(***************************************************************************)
C3_AlwaysStartsWithCommander ==
    pc = "returned" => (Len(result) >= 1 /\ result[1] = commander_id)

(***************************************************************************)
(* C3 amended: a returned list that is not empty starts with the commander *)
(* identifier, and the returned list is empty exactly when no basic land   *)
(* matches the commander's colors.                                         *)
(***************************************************************************)
C3_StartsWithCommanderUnlessNoLand ==
    pc = "returned" =>
        IF NoLandMatches THEN result = <<>>
        ELSE Len(result) >= 1 /\ result[1] = commander_id

C3_Witness ==
    /\ pc = "returned"
    /\ ~NoLandMatches
    /\ Len(result) > 1 + num_lands
    /\ result[1] = commander_id

(***************************************************************************)
(* C4: when no basic land's color is in commander_colors, build_deck       *)
(* returns the empty list, does not raise, and never gets to the lines     *)
(* that read the graph (sorted_nodes) or the card table (card_types).      *)
(***************************************************************************)
C4_NoLandReturnsEmpty ==
    (NoLandMatches /\ pc # "call") =>
        /\ pc = "returned"
        /\ result = <<>>
        /\ bound \cap {"deck_counts", "sorted_nodes", "card_types"} = {}

C4_Witness ==
    /\ pc = "returned"
    /\ commander_colors = <<"Colorless">>
    /\ Len(G.nodes) > 0
    /\ result = <<>>

(***************************************************************************)
(* C5: with k >= 1 matching lands the entries after the commander are k    *)
(* blocks in the order Plains, Island, Swamp, Mountain, Forest, each of    *)
(* floor(37 / k) copies; the land entries are k * floor(37 / k) <= 37.     *)
(***************************************************************************)
C5_LandBlocks ==
    (AfterLands /\ Len(MatchingLands) >= 1) =>
        LET lands == MatchingLands
            k == Len(lands)
            q == 37 \div k
        IN /\ k * q <= 37
           /\ (k = 1 => q = 37)
           /\ Len(deck) >= 1 + k * q
           /\ \A j \in 1..(k * q) : deck[1 + j] = lands[((j - 1) \div q) + 1]
           /\ \A j \in (2 + k * q)..Len(deck) : deck[j] \notin Range(LandNames)

C5_Witness ==
    /\ pc = "returned"
    /\ commander_colors = <<"G", "W">>
    /\ result[2] = "Plains" /\ result[19] = "Plains"
    /\ result[20] = "Forest" /\ result[37] = "Forest"
    /\ Len(result) > 37

(***************************************************************************)
(* C9: during the selection loop and in the returned deck no counter       *)
(* exceeds its quota, the entries after the land blocks are as many as the *)
(* counters add up to, and each is a graph node with a tracked type.       *)
(***************************************************************************)
C9_QuotaInvariant ==
    (pc \in {"loop", "types"} \/ (pc = "returned" /\ result # <<>>)) =>
        LET picked == Picked(deck)
            nodes == Range(G.nodes)
        IN
        /\ \A t \in TrackedTypes : deck_counts[t] <= card_type_limits[t]
        /\ Len(picked) = SumOver(deck_counts, TrackedTypes)
        /\ \A n \in Range(picked) : n \in nodes /\ TrackedOf(n) # {}
        /\ (pc = "returned" => result = deck)

C9_Witness ==
    /\ pc = "returned"
    /\ result # <<>>
    /\ \A t \in TrackedTypes : deck_counts[t] = card_type_limits[t]
    /\ Len(Picked(result)) = 63

(***************************************************************************)
(* C10: the entries after the land blocks of a returned deck are in        *)
(* non-increasing order of degree, and entries of equal degree are in the  *)
(* order in which their nodes were added to the graph.                     *)
(***************************************************************************)
RankedBefore(a, b) ==
    \/ Degree(G, a) > Degree(G, b)
    \/ (Degree(G, a) = Degree(G, b) /\ NodeIndex(G, a) < NodeIndex(G, b))

C10_DegreeOrder ==
    (pc = "returned" /\ result # <<>>) =>
        LET picked == Picked(result) IN
        \A i \in 1..(Len(picked) - 1) :
            picked[i] = picked[i + 1] \/ RankedBefore(picked[i], picked[i + 1])

C10_Witness ==
    /\ pc = "returned"
    /\ result # <<>>
    /\ LET picked == Picked(result) IN
       /\ Len(picked) >= 4
       /\ \E i \in 1..(Len(picked) - 1) :
             /\ NodeIndex(G, picked[i]) > NodeIndex(G, picked[i + 1])
             /\ Degree(G, picked[i]) > Degree(G, picked[i + 1])
       /\ \E i \in 1..(Len(picked) - 1) :
             /\ picked[i] # picked[i + 1]
             /\ Degree(G, picked[i]) = Degree(G, picked[i + 1])
             /\ Degree(G, picked[i]) > 0

(***************************************************************************)
(* C11: a ranked card with several tracked types is appended once per      *)
(* type that is tracked and under quota when build_deck reaches it; a card *)
(* typed "Artifact Creature" reached with both quotas open is appended     *)
(* twice.  Counters only grow, so a quota that is open now was open when   *)
(* the card was reached: a processed card has at least as many copies in   *)
(* the deck as it has tracked types with an open quota, and at most as     *)
(* many as it has tracked types.                                           *)
(***************************************************************************)
\* the tracked types among the words of a node's type line
TypeWords(n) ==
    LET f == DictGet(card_dict, Lower(n)) IN
    IF f = <<>> THEN {}
    ELSE {Lower(w) : w \in Range(Flatten(f[1].type))} \cap TrackedTypes

Copies(d, n) == Cardinality({i \in 1..Len(d) : d[i] = n})

C11_OncePerOpenType ==
    (pc \in {"loop", "types"} \/ (pc = "returned" /\ result # <<>>)) =>
        LET picked == Picked(deck) IN
        \A i \in 1..(node_i - 1) :
            LET n == sorted_nodes[i][1]
                T == TypeWords(n)
            IN Cardinality(T) >= 2 =>
                  /\ Copies(picked, n)
                        >= Cardinality({t \in T : deck_counts[t] < card_type_limits[t]})
                  /\ Copies(picked, n) <= Cardinality(T)

(***************************************************************************)
(* data_preparation, lines 266-288.                                        *)
(***************************************************************************)
prep_basic_lands == {"forest", "island", "mountain", "plains", "swamp"}

\* variant: any() for the all() of line 279
ColorsMatch_Any(card_colors, colors) ==
    IF card_colors = <<"Colorless">> THEN TRUE
    ELSE \E i \in 1..Len(card_colors) : card_colors[i] \in Range(colors)

\* lines 276-279
ColorsMatch(card_colors, colors) ==
    IF card_colors = <<"Colorless">> THEN TRUE
    ELSE \A i \in 1..Len(card_colors) : card_colors[i] \in Range(colors)

\* lines 282-286, for a card whose type line get_card_type can split
IsValidCard(d, card_name, colors, tribal) ==
    LET card_colors == get_card_color(d, card_name)[1]
        types == Range(LowerAll(get_card_type(d, card_name).types))
        colors_match == ColorsMatch(card_colors, colors)
    IN /\ colors_match
       /\ \/ (tribal \in types /\ "creature" \in types)
          \/ card_name \in prep_basic_lands
          \/ (colors_match /\ "creature" \notin types)

\* kind "ValueError": get_card_type raised on some card (line 272)
data_preparation(d, colors, tribal_in) ==
    LET tribal == Lower(tribal_in)
        items == DictItems(d)
    IN IF \E i \in 1..Len(items) : get_card_type(d, items[i].key).kind = "ValueError"
       THEN [kind |-> "ValueError", cards |-> <<>>]
       ELSE [kind |-> "list",
             cards |-> LET kept == SelectSeq(items,
                                     LAMBDA it : IsValidCard(d, it.key, colors, tribal))
                       IN [i \in 1..Len(kept) |-> kept[i].info]]

(***************************************************************************)
(* similarity_calculation, lines 384-418.                                  *)
(***************************************************************************)
ABILITY_WORDS_SET == {
    "AURA", "DEATHTOUCH", "DOUBLE STRIKE", "EQUIPMENT", "FIRST STRIKE", "FLYING",
    "HASTE", "LIFELINK", "REACH", "TRAMPLE", "To (TAP)", "ADDITIONAL COST",
    "BASIC LAND", "COLOR", "COLORLESS", "COMBAT DAMAGE", "CONTROL", "CONTROLLER",
    "COST", "COUNTER", "A SPELL OR ABILITY", "ON A PERMANENT", "DAMAGE", "DEFENDER",
    "DESTROY", "DISCARD", "DOUBLE", "ENCHANT", "ENTERS THE BATTLEFIELD", "EXILE",
    "FLASH", "FLASHBACK", "GOAD", "HEXPROOF", "INDESTRUCTIBLE",
    "LEAVES THE BATTLEFIELD", "LEGENDARY", "MANA", "MANA ABILITY", "MANA VALUE",
    "MENACE", "MULLIGAN", "OPPONENT", "OWNER", "PERMANENT", "PLANESWALKER", "PLAYER",
    "PUT ONTO THE BATTLEFIELD", "SACRIFICE", "SCRY", "SHUFFLE", "SOURCE", "SPELL",
    "TOKEN", "VIGILANCE", "X" }

\* str.upper and str.lower on the words of rules texts
UpperWord == "Flying" :> "FLYING" @@ "Draw" :> "DRAW" @@ "a" :> "A" @@ "card" :> "CARD"
Upper(w) == IF w \in DOMAIN UpperWord THEN UpperWord[w] ELSE w
TextLower == "Flying" :> "flying" @@ "Draw" :> "draw" @@ "Colorless" :> "colorless"
LowerToken(w) == IF w \in DOMAIN TextLower THEN TextLower[w] ELSE Lower(w)

\* lines 387-397: the words of the document of a card with rules text
DocumentWords(card) ==
    LET text == card.text[1]
        abilities == SelectSeq(text, LAMBDA word : Upper(word) \in ABILITY_WORDS_SET)
    IN text \o abilities \o card.colors \o Flatten(card.type) \o card.cmc

\* lines 384-397: one document per card whose text is not None
Texts(cards) ==
    LET withText == SelectSeq(cards, LAMBDA card : card.text # <<>>)
    IN [i \in 1..Len(withText) |-> DocumentWords(withText[i])]

\* TfidfVectorizer's analyzer: lowercase, tokens of two or more word characters
Tokens(words) ==
    LET lowered == [i \in 1..Len(words) |-> LowerToken(words[i])]
    IN SelectSeq(lowered, LAMBDA w : Len(w) >= 2)

TokenCounts(tokens) ==
    [t \in Range(tokens) |-> Cardinality({i \in 1..Len(tokens) : tokens[i] = t})]

(***************************************************************************)
(* linear_kernel of the TF-IDF rows of two documents, in hundredths: the   *)
(* rows are L2-normalised, so documents with the same token counts score   *)
(* 1 and documents without a common token score 0; the score of any other  *)
(* pair depends on the batch and is the parameter partial.                 *)
(***************************************************************************)
PartialScores == {50, 70, 71}

Score(a, b, partial) ==
    LET ta == Tokens(a)
        tb == Tokens(b)
    IN IF Range(ta) \cap Range(tb) = {} THEN 0
       ELSE IF TokenCounts(ta) = TokenCounts(tb) THEN 100
       ELSE partial

\* kind "ValueError": fit_transform (line 404) raises "empty vocabulary" when
\* no document has a token
similarity_calculation(cards, partial) ==
    LET texts == Texts(cards)
        n == Len(texts)
    IN IF \A i \in 1..n : Tokens(texts[i]) = <<>>
       THEN [kind |-> "ValueError", dict |-> <<>>]
       ELSE [kind |-> "dict",
             dict |-> [p \in {q \in (1..n) \X (1..n) : q[1] < q[2]} |->
                          Score(texts[p[1]], texts[p[2]], partial)]]

(***************************************************************************)
(* graph_construction, lines 318-332; indices count from 1 here, in the    *)
(* score table as in the card list.                                        *)
(***************************************************************************)
RECURSIVE AddNodes(_, _)
AddNodes(g, cards) ==
    IF cards = <<>> THEN g ELSE AddNodes(AddNode(g, Head(cards).name), Tail(cards))

EdgeAdded(similarity, limit) == similarity > limit

graph_construction(all_cards, sims, limit) ==
    LET g0 == AddNodes(EmptyGraph, all_cards)
        n == Len(all_cards)
        linked == {p \in (1..n) \X (1..n) :
                      /\ p[1] # p[2]
                      /\ p \in DOMAIN sims
                      /\ EdgeAdded(sims[p], limit)}
    IN [g0 EXCEPT !.edges = {{all_cards[p[1]].name, all_cards[p[2]].name} : p \in linked}]

(***************************************************************************)
(* main, ProjectCode.py lines 10-28, on small card tables.                 *)
(***************************************************************************)
MaxTable == 3    \* cards in a small table

\* 0.7 of line 24, in hundredths
threshold == 70

TextFlying == << <<"Flying">> >>
TextDraw == << <<"Draw", "a", "card">> >>
TL_Forest == << <<"Basic", "Land">>, <<"Forest">> >>

\* named "": the card is named after its position in the table
CardPool == {
    [named |-> "", type |-> TL_Creature, colors |-> <<"G">>, text |-> TextFlying],
    [named |-> "", type |-> << <<"Creature">>, <<"Goblin">> >>, colors |-> <<"G">>,
     text |-> TextFlying],
    [named |-> "", type |-> TL_Legendary, colors |-> <<"W", "G">>, text |-> <<>>],
    [named |-> "", type |-> TL_Instant, colors |-> <<"W">>, text |-> TextDraw],
    [named |-> "", type |-> TL_Artifact, colors |-> <<"Colorless">>, text |-> <<>>],
    [named |-> "", type |-> TL_Split, colors |-> <<"G">>, text |-> TextFlying],
    [named |-> "Forest", type |-> TL_Forest, colors |-> <<"Colorless">>, text |-> <<>>] }

SmallTables ==
    UNION {{LoadCards([i \in 1..n |->
                         [MakeCard(i, t[i].type, t[i].colors, t[i].text)
                            EXCEPT !.name = IF t[i].named = "" THEN @ ELSE t[i].named]]) :
                t \in [1..n -> CardPool]} : n \in 0..MaxTable}

TypedNames == {MixedName[i] : i \in 1..(MaxTable + 1)} \cup {"Forest"}
TribalInputs == {"Elf", "goblin"}

InitMain ==
    /\ card_dict \in SmallTables
    /\ pc = "main"
    /\ G = EmptyGraph
    /\ commander_id = ""
    /\ commander_colors = <<>>
    /\ InitLocals
    /\ tribal_type = ""
    /\ valid_cards = <<>>
    /\ similarities = <<>>

\* lines 10-20: a commander name is asked for until it is a key of the table
MainReadInput ==
    /\ pc = "main"
    /\ \E typed \in TypedNames, tribal \in TribalInputs :
          /\ Lower(typed) \in DOMAIN card_dict.at
          /\ commander_id' = Lower(typed)
          /\ commander_colors' = get_card_color(card_dict, Lower(typed))[1]
          /\ tribal_type' = tribal
    /\ pc' = "data_preparation"
    /\ UNCHANGED <<card_dict, G, bound, deck, selected_lands, land_i, deck_counts,
                   sorted_nodes, node_i, card_types, type_i, result, error,
                   valid_cards, similarities>>

\* line 22
MainDataPreparation ==
    /\ pc = "data_preparation"
    /\ LET r == data_preparation(card_dict, commander_colors, tribal_type) IN
       IF r.kind = "ValueError"
       THEN /\ pc' = "raised"
            /\ error' = UnpackError
            /\ valid_cards' = valid_cards
       ELSE /\ pc' = "similarity_calculation"
            /\ error' = error
            /\ valid_cards' = r.cards
    /\ UNCHANGED <<card_dict, buildVars_but_pc, tribal_type, similarities>>

\* line 23
MainSimilarityCalculation ==
    /\ pc = "similarity_calculation"
    /\ \E partial \in PartialScores :
          LET r == similarity_calculation(valid_cards, partial) IN
          IF r.kind = "ValueError"
          THEN /\ pc' = "raised"
               /\ error' = EmptyVocabularyError
               /\ similarities' = similarities
          ELSE /\ pc' = "graph_construction"
               /\ error' = error
               /\ similarities' = r.dict
    /\ UNCHANGED <<card_dict, buildVars_but_pc, tribal_type, valid_cards>>

\* line 24; lines 26-28 then call build_deck
MainGraphConstruction ==
    /\ pc = "graph_construction"
    /\ G' = graph_construction(valid_cards, similarities, threshold)
    /\ pc' = "call"
    /\ UNCHANGED <<card_dict, commander_id, commander_colors, bound, deck,
                   selected_lands, land_i, deck_counts, sorted_nodes, node_i,
                   card_types, type_i, result, error, mainVars>>

NextMain ==
    \/ MainReadInput
    \/ MainDataPreparation
    \/ MainSimilarityCalculation
    \/ MainGraphConstruction
    \/ BuildDeck

SpecMain == InitMain /\ [][NextMain]_vars

(***************************************************************************)
(* State functions the properties of main use.                             *)
(***************************************************************************)
\* data_preparation has returned its list
Prepared ==
    /\ pc \notin {"main", "data_preparation"}
    /\ ~(pc = "raised" /\ error = UnpackError)

\* similarity_calculation has returned or raised
Scored == Prepared /\ pc # "similarity_calculation"

ColorLegal(card) ==
    \/ card.colors = <<"Colorless">>
    \/ \A c \in Range(card.colors) : c \in Range(commander_colors)

TableCards == {card_dict.at[k] : k \in DOMAIN card_dict.at}

(***************************************************************************)
(* C6: every card data_preparation returns is colorless or has all its     *)
(* colors among the commander's, and no card of the table that is neither  *)
(* is returned.                                                            *)
(***************************************************************************)
C6_ColorFilter ==
    Prepared =>
        /\ \A i \in 1..Len(valid_cards) : ColorLegal(valid_cards[i])
        /\ \A card \in TableCards : ~ColorLegal(card) => card \notin Range(valid_cards)

C6_Witness ==
    /\ Prepared
    /\ \E i \in 1..Len(valid_cards) : valid_cards[i].colors = <<"G">>
    /\ \E i \in 1..Len(valid_cards) : valid_cards[i].colors = <<"Colorless">>
    /\ \E card \in TableCards : ~ColorLegal(card)

(***************************************************************************)
(* C7: every creature data_preparation returns (the part of its type line  *)
(* before the dash holds the word Creature) has the tribal type, compared  *)
(* without case, among the words after the dash.                           *)
(***************************************************************************)
IsCreature(card) == "Creature" \in Range(card.type[1])

Subtypes(card) == IF Len(card.type) >= 2 THEN Range(LowerAll(card.type[2])) ELSE {}

C7_OnlyTribalCreatures ==
    Prepared =>
        \A i \in 1..Len(valid_cards) :
            IsCreature(valid_cards[i]) => Lower(tribal_type) \in Subtypes(valid_cards[i])

(***************************************************************************)
(* C8: with at most one candidate similarity_calculation does not raise    *)
(* and returns an empty table, graph_construction then returns the         *)
(* candidates as nodes without edges, and build_deck returns the commander *)
(* followed by the land blocks.                                            *)
(***************************************************************************)
C8_SmallCandidateList ==
    (Scored /\ Len(valid_cards) <= 1) =>
        /\ error # EmptyVocabularyError
        /\ DOMAIN similarities = {}
        /\ pc \notin {"graph_construction", "raised"} =>
              /\ G.nodes = [i \in 1..Len(valid_cards) |-> valid_cards[i].name]
              /\ G.edges = {}
        /\ (pc = "returned" /\ ~NoLandMatches) =>
              /\ result[1] = commander_id
              /\ Len(result) >= 1 + NumLandEntries
              /\ \A j \in 2..(1 + NumLandEntries) : result[j] \in Range(LandNames)

(***************************************************************************)
(* C12: in the graph built from a candidate list and its own score table,  *)
(* an edge joins two candidates only if both have rules text and the score *)
(* of their own two documents is above the threshold; a candidate without  *)
(* rules text is an isolated node.                                         *)
(***************************************************************************)
\* graph_construction has returned
GraphBuilt == Scored /\ pc # "graph_construction" /\ error = ""

\* the row of the score table that belongs to the i-th candidate's document
TextIndex(i) == Cardinality({k \in 1..i : valid_cards[k].text # <<>>})

C12_EdgesJoinSimilarTexts ==
    GraphBuilt =>
        \A i \in 1..Len(valid_cards) : \A j \in (i + 1)..Len(valid_cards) :
            {valid_cards[i].name, valid_cards[j].name} \in G.edges =>
                /\ valid_cards[i].text # <<>>
                /\ valid_cards[j].text # <<>>
                /\ similarities[<<TextIndex(i), TextIndex(j)>>] > threshold

(***************************************************************************)
(* C13: in a build run end to end, the commander's card occupies exactly   *)
(* one entry of the returned deck: no entry after the first names the      *)
(* commander's card, names compared without regard to case.                *)
(***************************************************************************)
C13_CommanderOnce ==
    (pc = "returned" /\ result # <<>>) =>
        /\ Lower(result[1]) = Lower(commander_id)
        /\ \A j \in 2..Len(result) : Lower(result[j]) # Lower(commander_id)

====
